---- MODULE Spec2Model ----
(***************************************************************************)
(* BB84 key distribution, src/bb84_qiskit.py: the classical orchestration  *)
(* around the one-qubit circuits (generation, sifting, QBER sampling, the  *)
(* batched accumulation loop, key assembly).                               *)
(*                                                                         *)
(* bb84[r] is the frame of one call BB84(...): its arguments, its locals   *)
(* and its position.  Two calls can be modelled side by side (SpecPair) to *)
(* compare runs that share a seed; Spec has one call.  SpecLive is one call *)
(* with no bound on its rounds, under fairness.  SpecSift, SpecVerify and   *)
(* SpecBackend call sift, sample_and_verify and pick_ibm_backend directly.  *)
(*                                                                         *)
(* Arrays are sequences (1-based); the index VALUES the code computes      *)
(* (matching_indices, sample_indices, kept_indices) are 0-based as in the  *)
(* code.  A float q = k / s is the pair [num |-> k, den |-> s]; the        *)
(* threshold is qber_threshold / ThDen.                                    *)
(***************************************************************************)
EXTENDS Integers, Sequences, FiniteSets

\* ------------------------------------------------------------------ bounds
MaxN == 2
MaxS == 2
MaxBatch == 2
MaxRounds == 2
ThDen == 2
MaxLen == 3
MaxBackends == 2
MaxPending == 1
MaxLiveBatch == 1

Runs == {1, 2}
Bit == {0, 1}
Seeds == {"None", "42"}
Executors == {"aer", "runtime", "other"}

VARIABLES
  bb84,      \* [Runs -> frame]: the calls of BB84
  stream,    \* the part of default_rng(seed)'s output already fixed and still to be read
  picked,    \* rng.choice's result already fixed for a generator state, <<>> if none
  chan,      \* a reproducible executor's answer already fixed for a call, <<>> if none
  det,       \* how far the executor is reproducible: "none", "matched", "full"
  counted,   \* TRUE: the frames keep their counters, which bounds the rounds of a call
  sift_args, \* arguments of a direct call of sift
  sift_ret,  \* <<>>, or <<its return value>>
  verify_args,  \* arguments of a direct call of sample_and_verify
  verify_ret,   \* <<>>, or <<its outcome>>
  backend_args, \* what a call of pick_ibm_backend is given and finds at the service
  backend_ret   \* <<>>, or <<its outcome>>

vars == <<bb84, stream, picked, chan, det, counted, sift_args, sift_ret,
          verify_args, verify_ret, backend_args, backend_ret>>

\* --------------------------------------------------------------- sequences
Min(S) == CHOOSE x \in S : \A y \in S : x <= y

Max(a, b) == IF a >= b THEN a ELSE b

\* arr[lo:hi] of Python, on a 1-based sequence: elements lo+1 .. min(hi, len)
Slice(arr, lo, hi) ==
  LET h == IF hi < Len(arr) THEN hi ELSE Len(arr)
  IN  IF h <= lo THEN <<>> ELSE [k \in 1..(h - lo) |-> arr[lo + k]]

\* np.nonzero(mask)[0]: the 0-based positions where mask holds, ascending
RECURSIVE nonzero_from(_, _)
nonzero_from(mask, i) ==
  IF i > Len(mask) THEN <<>>
  ELSE (IF mask[i] THEN <<i - 1>> ELSE <<>>) \o nonzero_from(mask, i + 1)

nonzero(mask) == nonzero_from(mask, 1)

\* arr[idx] with idx an array of 0-based indices (fancy indexing)
take(arr, idx) == [k \in 1..Len(idx) |-> arr[idx[k] + 1]]

\* int(np.sum(flags)) of a boolean array
RECURSIVE np_sum(_)
np_sum(flags) ==
  IF flags = <<>> THEN 0
  ELSE (IF Head(flags) THEN 1 ELSE 0) + np_sum(Tail(flags))

\* np.concatenate(arrays) if arrays else np.array([])
RECURSIVE np_concatenate(_)
np_concatenate(arrays) ==
  IF arrays = <<>> THEN <<>>
  ELSE Head(arrays) \o np_concatenate(Tail(arrays))

\* sum(len(x) for x in arrays)
RECURSIVE sum_len(_)
sum_len(arrays) ==
  IF arrays = <<>> THEN 0 ELSE Len(Head(arrays)) + sum_len(Tail(arrays))

\* ------------------------------------------------------ the one-qubit circuit
\* the circuit with the z gate of the X-basis encoding of bit 1 left out
one_qubit_bb84_circuit_no_z(bit, alice_basis, bob_basis) ==
  (IF alice_basis = 0
     THEN (IF bit = 1 THEN <<"x">> ELSE <<>>)
     ELSE <<"h">>)
  \o (IF bob_basis = 1 THEN <<"h">> ELSE <<>>)
  \o <<"measure">>

one_qubit_bb84_circuit(bit, alice_basis, bob_basis) ==
  (IF alice_basis = 0
     THEN (IF bit = 1 THEN <<"x">> ELSE <<>>)
     ELSE <<"h">> \o (IF bit = 1 THEN <<"z">> ELSE <<>>))
  \o (IF bob_basis = 1 THEN <<"h">> ELSE <<>>)
  \o <<"measure">>

\* The ideal simulator on one qubit, up to global phase: states |0>, |1>, |+>, |->
ApplyGate(q, g) ==
  CASE g = "x" -> (CASE q = "0" -> "1" [] q = "1" -> "0" [] OTHER -> q)
    [] g = "z" -> (CASE q = "+" -> "-" [] q = "-" -> "+" [] OTHER -> q)
    [] g = "h" -> (CASE q = "0" -> "+" [] q = "1" -> "-" [] q = "+" -> "0" [] OTHER -> "1")
    [] OTHER -> q

RECURSIVE Evolve(_, _)
Evolve(q, gates) ==
  IF gates = <<>> THEN q ELSE Evolve(ApplyGate(q, Head(gates)), Tail(gates))

\* the keys get_counts can hold after one shot of the circuit
Counts(circuit) ==
  LET q == Evolve("0", circuit)
  IN  CASE q = "0" -> {0} [] q = "1" -> {1} [] OTHER -> {0, 1}

\* ------------------------------------------------------------------- sift
\* sift with Bob's bits returned as measured, not indexed by matching_indices
sift_bob_unsifted(alice_raw_bits, alice_bases, bob_bases, bob_measured_bits) ==
  LET bases_match == [i \in 1..Len(alice_bases) |-> alice_bases[i] = bob_bases[i]]
      matching_indices == nonzero(bases_match)
  IN  [alice_sifted_bits |-> take(alice_raw_bits, matching_indices),
       bob_sifted_bits   |-> bob_measured_bits,
       matching_indices  |-> matching_indices]

\* sift keeping every position, whatever the bases
sift_every_position(alice_raw_bits, alice_bases, bob_bases, bob_measured_bits) ==
  LET matching_indices == nonzero([i \in 1..Len(alice_bases) |-> TRUE])
  IN  [alice_sifted_bits |-> take(alice_raw_bits, matching_indices),
       bob_sifted_bits   |-> take(bob_measured_bits, matching_indices),
       matching_indices  |-> matching_indices]

sift(alice_raw_bits, alice_bases, bob_bases, bob_measured_bits) ==
  LET bases_match == [i \in 1..Len(alice_bases) |-> alice_bases[i] = bob_bases[i]]
      matching_indices == nonzero(bases_match)
  IN  [alice_sifted_bits |-> take(alice_raw_bits, matching_indices),
       bob_sifted_bits   |-> take(bob_measured_bits, matching_indices),
       matching_indices  |-> matching_indices]

\* --------------------------------------------------- the random generator
\* default_rng() called without the seed
make_rng_unseeded(seed) == [seeded |-> FALSE, pos |-> 0]

\* make_rng(seed): default_rng(seed). With a seed the output is a function of the
\* seed and of what was drawn before; without one every generator has entropy of
\* its own.
make_rng(seed) == [seeded |-> seed # "None", pos |-> 0]

Known(q) == q > stream.base /\ q <= stream.base + Len(stream.bits)

\* rand_bits / rand_bases: rng.integers(0, 2, size=m), m >= 0, from generator g.
\* The values a seeded generator yields at positions already fixed are those.
integers(g, m) ==
  {d \in [1..m -> Bit] :
     g.seeded => \A i \in 1..m : Known(g.pos + i) => d[i] = stream.bits[g.pos + i - stream.base]}

\* the stream as known once generator g has yielded d
Reveal(g, d) ==
  IF ~g.seeded THEN stream
  ELSE LET lo  == IF stream.bits = <<>> THEN g.pos ELSE stream.base
           top == Max(stream.base + Len(stream.bits), g.pos + Len(d))
       IN  [base |-> lo,
            bits |-> [k \in 1..(top - lo) |->
                        IF Known(lo + k) THEN stream.bits[lo + k - stream.base]
                        ELSE d[lo + k - g.pos]]]

\* rng.choice(n, size=size) with replacement: an index can be drawn twice
Permutations_with_replacement(n, size) == [1..size -> 0..(n - 1)]

\* rng.choice(n, size=size, replace=False): size distinct indices of 0 .. n-1
Permutations(n, size) ==
  {q \in [1..size -> 0..(n - 1)] : \A i, j \in 1..size : i # j => q[i] # q[j]}

choice(g, n, size) ==
  IF /\ g.seeded
     /\ picked # <<>>
     /\ picked[1].pos = g.pos /\ picked[1].n = n /\ picked[1].size = size
  THEN {picked[1].out}
  ELSE Permutations(n, size)

\* ------------------------------------------------------- pick_ibm_backend
\* A backend as the selection sees it: whether its status() raises, and the
\* pending_jobs its status carries (<<>> if the status has no such attribute).
\* The lists are what service.backends(simulator=.., operational=True) returns.
Status == [raises : BOOLEAN, pending_jobs : {<<>>} \cup {<<k>> : k \in 0..MaxPending}]

Backends == UNION {[1..m -> Status] : m \in 0..MaxBackends}

\* getattr(b.status(), "pending_jobs", 0)
pending_key(b) == IF b.pending_jobs = <<>> THEN 0 ELSE b.pending_jobs[1]

\* sorted(..., reverse=True) on the first m backends, as indices into bs
RECURSIVE sorted_descending(_, _)
sorted_descending(bs, m) ==
  IF m = 0 THEN <<>>
  ELSE LET prev == sorted_descending(bs, m - 1)
           p == Cardinality({j \in 1..Len(prev) :
                               pending_key(bs[prev[j]]) >= pending_key(bs[m])})
       IN  SubSeq(prev, 1, p) \o <<m>> \o SubSeq(prev, p + 1, Len(prev))

\* sorted(bs, key=pending_key) on the first m backends, as indices into bs:
\* ascending and stable (a backend goes after those already placed whose key is
\* not greater)
RECURSIVE sorted(_, _)
sorted(bs, m) ==
  IF m = 0 THEN <<>>
  ELSE LET prev == sorted(bs, m - 1)
           p == Cardinality({j \in 1..Len(prev) :
                               pending_key(bs[prev[j]]) <= pending_key(bs[m])})
       IN  SubSeq(prev, 1, p) \o <<m>> \o SubSeq(prev, p + 1, Len(prev))

\* try: bs = sorted(...) except Exception: pass -- a status() that raises
\* leaves the list in the order the service gave
least_loaded_first(bs) ==
  IF \E i \in 1..Len(bs) : bs[i].raises THEN [i \in 1..Len(bs) |-> i]
  ELSE sorted(bs, Len(bs))

\* what the call returns: the named backend, or the backend at a position of
\* the simulators' or of the other backends' list; or what it raises
pick_ibm_backend(backend_name, sims, qpus) ==
  IF backend_name # "" THEN [raised |-> "", class |-> "named", at |-> 0]
  ELSE IF sims # <<>> THEN [raised |-> "", class |-> "sim", at |-> least_loaded_first(sims)[1]]
  ELSE IF qpus = <<>> THEN [raised |-> "RuntimeError", class |-> "", at |-> 0]
  ELSE [raised |-> "", class |-> "qpu", at |-> least_loaded_first(qpus)[1]]

\* ------------------------------------------------------- the channel executor
Failed == [ok |-> FALSE, bits |-> <<>>]

\* run_single_shot_batch: one shot of each circuit on the ideal simulator
run_single_shot_batch(circuits) ==
  {[ok |-> TRUE, bits |-> b] :
     b \in {m \in [1..Len(circuits) -> Bit] : \A i \in 1..Len(circuits) : m[i] \in Counts(circuits[i])}}
  \cup (IF circuits = <<>> THEN {Failed} ELSE {})

\* run_single_shot_batch_runtime: a remote backend; any bit per circuit, or no result
run_single_shot_batch_runtime(circuits) ==
  {[ok |-> TRUE, bits |-> b] : b \in [1..Len(circuits) -> Bit]} \cup {Failed}

\* Bob measures in Alice's basis: the circuit holds an even number of h gates
SameBasis(circuit) == Len(SelectSeq(circuit, LAMBDA g : g = "h")) % 2 = 0

\* What call number k of the executor can answer.  A reproducible executor
\* ("full") answers the same call with the same bits; one reproducible where the
\* bases match ("matched") with the same bits at those positions.
Recorded(r, executor, k, circuits) ==
  /\ det # "none"
  /\ chan # <<>>
  /\ chan[1].by # r /\ chan[1].k = k
  /\ chan[1].executor = executor /\ chan[1].circuits = circuits

Execute(r, executor, k, circuits) ==
  LET any == IF executor = "aer" THEN run_single_shot_batch(circuits)
             ELSE run_single_shot_batch_runtime(circuits)
  IN  IF Recorded(r, executor, k, circuits)
      THEN IF det = "full" THEN {chan[1].out}
           ELSE {o \in any :
                   /\ o.ok = chan[1].out.ok
                   /\ o.ok => \A i \in 1..Len(circuits) :
                                SameBasis(circuits[i]) => o.bits[i] = chan[1].out.bits[i]}
      ELSE any

\* -------------------------------------------------------- sample_and_verify
NoQber == [num |-> 0, den |-> 0]

\* the test written qber_value >= qber_threshold
TooHigh_or_equal(qber_value, th) == qber_value.num * ThDen >= th * qber_value.den

\* qber_value > qber_threshold, the threshold being th / ThDen
TooHigh(qber_value, th) == qber_value.num * ThDen > th * qber_value.den

\* the count taken over all the sifted bits, not over the sample
count_mismatches_everywhere(alice_bits, bob_bits, sample_indices) ==
  np_sum([i \in 1..Len(alice_bits) |-> alice_bits[i] # bob_bits[i]])

\* int(np.sum(alice_bits[sample_indices] != bob_bits[sample_indices]))
count_mismatches(alice_bits, bob_bits, sample_indices) ==
  np_sum([k \in 1..Len(sample_indices) |->
            take(alice_bits, sample_indices)[k] # take(bob_bits, sample_indices)[k]])

\* the mask with the sampled positions taken one too far
keep_mask_shifted(n, sample_indices) ==
  [i \in 1..n |-> ~(\E k \in 1..Len(sample_indices) : sample_indices[k] = i)]

\* mask = np.ones(n, dtype=bool); mask[sample_indices] = False
keep_mask(n, sample_indices) ==
  [i \in 1..n |-> ~(\E k \in 1..Len(sample_indices) : sample_indices[k] = i - 1)]

\* the only test of the arguments: len(concatenated_alice_bits) < sample_size
not_enough_to_sample(alice_bits, sample_size) == Len(alice_bits) < sample_size

\* sample_and_verify once sample_indices is drawn: what it raises ("" if nothing)
\* and its locals.  Indexing bob_bits by a sampled index it does not have, or by
\* a mask of another length than its own, raises IndexError.
sample_and_verify(alice_bits, bob_bits, sample_size, sample_indices, th) ==
  LET out_of_bob == \E k \in 1..Len(sample_indices) : sample_indices[k] >= Len(bob_bits)
      mismatched_bits_count ==
        IF out_of_bob THEN 0 ELSE count_mismatches(alice_bits, bob_bits, sample_indices)
      qber_value == [num |-> mismatched_bits_count, den |-> sample_size]
      mask == keep_mask(Len(alice_bits), sample_indices)
      raised == IF out_of_bob THEN "IndexError"
                ELSE IF sample_size = 0 THEN "ZeroDivisionError"
                ELSE IF TooHigh(qber_value, th) THEN "QberTooHigh"
                ELSE IF Len(mask) # Len(bob_bits) THEN "IndexError"
                ELSE ""
  IN  [raised |-> raised,
       mismatched_bits_count |-> mismatched_bits_count,
       qber_value    |-> IF out_of_bob \/ sample_size = 0 THEN NoQber ELSE qber_value,
       kept_bob_bits |-> IF raised = "" THEN take(bob_bits, nonzero(mask)) ELSE <<>>,
       kept_indices  |-> IF raised = "" THEN nonzero(mask) ELSE <<>>]

\* ------------------------------------------------------------------ frames
Frame(n, s, seed, batch, executor, th, pc) ==
  [final_key_size |-> n, sample_size |-> s, seed |-> seed, batch_size |-> batch,
   executor |-> executor, qber_threshold |-> th,
   pc |-> pc, err |-> "",
   rng |-> make_rng(seed), draws |-> 0, calls |-> 0, rounds |-> 0,
   total_transmissions |-> 0, differed |-> FALSE,
   alice_sifted_bits |-> <<>>, bob_sifted_bits |-> <<>>,
   all_alice_sifted_bits |-> <<>>, all_bob_sifted_bits |-> <<>>,
   concatenated_alice_sifted_bits |-> <<>>, concatenated_bob_sifted_bits |-> <<>>,
   sample_indices |-> <<>>, mismatched_bits_count |-> 0, qber_value |-> NoQber,
   bob_final_bits |-> <<>>, kept_indices |-> <<>>,
   result |-> <<>>]

Off == Frame(1, 0, "None", 1, "aer", 0, "off")

Alive(f) == f.pc \in {"start", "loop", "verify", "assemble"}

Raise(f, e) == [f EXCEPT !.pc = "error", !.err = e]

\* The calls are independent; they are run one step at a time, the call whose
\* generator is least advanced first.
Scheduled(r) ==
  /\ Alive(bb84[r])
  /\ \A x \in Runs \ {r} :
       Alive(bb84[x]) =>
         \/ bb84[r].rng.pos < bb84[x].rng.pos
         \/ bb84[r].rng.pos = bb84[x].rng.pos /\ r < x

\* What of the environment's already fixed answers a later read can still reach
Readers(fr) == {x \in Runs : fr[x].pc \in {"start", "loop"} /\ fr[x].rng.seeded}

TrimStream(fr, st) ==
  IF Readers(fr) = {} THEN [base |-> 0, bits |-> <<>>]
  ELSE LET lo  == Min({fr[x].rng.pos : x \in Readers(fr)})
           top == st.base + Len(st.bits)
       IN  IF lo >= top THEN [base |-> 0, bits |-> <<>>]
           ELSE [base |-> lo, bits |-> [k \in 1..(top - lo) |-> st.bits[lo + k - st.base]]]

TrimPicked(fr, pk) ==
  IF /\ pk # <<>>
     /\ \E x \in Runs \ {pk[1].by} :
          /\ fr[x].pc \in {"start", "loop", "verify"}
          /\ fr[x].rng.seeded
          /\ fr[x].rng.pos <= pk[1].pos
  THEN pk ELSE <<>>

TrimChan(fr, ch) ==
  IF /\ ch # <<>>
     /\ \E x \in Runs \ {ch[1].by} : fr[x].pc \in {"start", "loop"} /\ fr[x].calls < ch[1].k
  THEN ch ELSE <<>>

\* (fr is bound by a quantifier so that it is computed once)
Step(r, f, st, pk, ch) ==
  \E fr \in {[bb84 EXCEPT ![r] = f]} :
      /\ bb84' = fr
      /\ stream' = TrimStream(fr, st)
      /\ picked' = TrimPicked(fr, pk)
      /\ chan' = TrimChan(fr, ch)
      /\ UNCHANGED <<det, counted, sift_args, sift_ret,
                     verify_args, verify_ret, backend_args, backend_ret>>

\* ------------------------------------------------------------------- BB84
\* what a counter advances by: nothing where the counters are not kept
tally(k) == IF counted THEN k ELSE 0

\* the exit test asking for more than final_key_size + sample_size bits
enough_strictly_more(f, all_alice) == sum_len(all_alice) > f.final_key_size + f.sample_size

\* the exit test forgetting the sample
enough_for_key_only(f, all_alice) == sum_len(all_alice) >= f.final_key_size

\* the loop's exit test, on the accumulated list of sifted arrays
enough(f, all_alice) == sum_len(all_alice) >= f.final_key_size + f.sample_size

\* the round's sifted arrays put at the front of the lists
accumulate_in_front(f, alice_raw_bits, alice_bases, bob_bases, bob_measured_bits) ==
  LET s == sift(alice_raw_bits, alice_bases, bob_bases, bob_measured_bits)
      all_alice == IF Len(s.alice_sifted_bits) > 0
                     THEN <<s.alice_sifted_bits>> \o f.all_alice_sifted_bits
                     ELSE f.all_alice_sifted_bits
      all_bob   == IF Len(s.alice_sifted_bits) > 0
                     THEN <<s.bob_sifted_bits>> \o f.all_bob_sifted_bits
                     ELSE f.all_bob_sifted_bits
  IN  [f EXCEPT !.total_transmissions = @ + tally(f.batch_size),
                !.alice_sifted_bits = s.alice_sifted_bits,
                !.bob_sifted_bits = s.bob_sifted_bits,
                !.all_alice_sifted_bits = all_alice,
                !.all_bob_sifted_bits = all_bob,
                !.pc = IF enough(f, all_alice) THEN "verify" ELSE "loop"]

\* the round's sifted arrays dropped instead of appended
accumulate_dropping(f, alice_raw_bits, alice_bases, bob_bases, bob_measured_bits) ==
  [f EXCEPT !.total_transmissions = @ + tally(f.batch_size),
            !.pc = IF enough(f, f.all_alice_sifted_bits) THEN "verify" ELSE "loop"]

\* the rest of one round of the loop once Bob's bits are back
accumulate(f, alice_raw_bits, alice_bases, bob_bases, bob_measured_bits) ==
  LET s == sift(alice_raw_bits, alice_bases, bob_bases, bob_measured_bits)
      all_alice == IF Len(s.alice_sifted_bits) > 0
                     THEN Append(f.all_alice_sifted_bits, s.alice_sifted_bits)
                     ELSE f.all_alice_sifted_bits
      all_bob   == IF Len(s.alice_sifted_bits) > 0
                     THEN Append(f.all_bob_sifted_bits, s.bob_sifted_bits)
                     ELSE f.all_bob_sifted_bits
  IN  [f EXCEPT !.total_transmissions = @ + tally(f.batch_size),
                !.alice_sifted_bits = s.alice_sifted_bits,
                !.bob_sifted_bits = s.bob_sifted_bits,
                !.all_alice_sifted_bits = all_alice,
                !.all_bob_sifted_bits = all_bob,
                !.pc = IF enough(f, all_alice) THEN "verify" ELSE "loop"]

\* the executor's exception caught and the loop gone on
executor_failed_retried(h) == [h EXCEPT !.pc = "loop"]

\* the executor's exception is not caught: it ends the call
executor_failed(h) == Raise(h, "ExecutorFailure")

\* the argument check on entry
invalid(f) == f.final_key_size <= 0 \/ f.sample_size < 0

Validate(r) ==
  LET f == bb84[r]
  IN  /\ Scheduled(r)
      /\ f.pc = "start"
      /\ Step(r, IF invalid(f) THEN Raise(f, "InvalidParameters") ELSE [f EXCEPT !.pc = "loop"],
              stream, picked, chan)

\* one iteration of the while loop
Round(r) ==
  LET f == bb84[r]
      B == f.batch_size
  IN  /\ Scheduled(r)
      /\ f.pc = "loop"
      /\ f.rounds < MaxRounds
      /\ IF B < 0
         THEN \* rng.integers(size=B) raises ValueError (negative dimensions)
              Step(r, Raise([f EXCEPT !.rounds = @ + tally(1)], "NegativeDimensions"),
                   stream, picked, chan)
         ELSE \E d \in integers(f.rng, 3 * B) :
                LET alice_raw_bits == Slice(d, 0, B)
                    alice_bases    == Slice(d, B, 2 * B)
                    bob_bases      == Slice(d, 2 * B, 3 * B)
                    batch_circuits == [i \in 1..B |->
                       one_qubit_bb84_circuit(alice_raw_bits[i], alice_bases[i], bob_bases[i])]
                    g  == [f EXCEPT !.rounds = @ + tally(1), !.draws = @ + tally(3),
                                    !.rng.pos = @ + tally(3 * B)]
                    st == Reveal(f.rng, d)
                IN  IF f.executor \notin {"aer", "runtime"}
                    THEN Step(r, Raise(g, "BadExecutor"), st, picked, chan)
                    ELSE \E o \in Execute(r, f.executor, f.calls + 1, batch_circuits) :
                           LET h  == [g EXCEPT
                                        !.calls = @ + tally(1),
                                        !.differed = @ \/ (/\ Recorded(r, f.executor, f.calls + 1,
                                                                       batch_circuits)
                                                            /\ o # chan[1].out)]
                               ch == IF det # "none"
                                       THEN <<[by |-> r, k |-> f.calls + 1, executor |-> f.executor,
                                               circuits |-> batch_circuits, out |-> o]>>
                                       ELSE chan
                           IN  IF ~o.ok
                               THEN Step(r, executor_failed(h), st, picked, ch)
                               ELSE Step(r, accumulate(h, alice_raw_bits, alice_bases,
                                                       bob_bases, o.bits),
                                         st, picked, ch)

\* the concatenation and the call of sample_and_verify
Verify(r) ==
  LET f  == bb84[r]
      ca == np_concatenate(f.all_alice_sifted_bits)
      cb == np_concatenate(f.all_bob_sifted_bits)
      g  == [f EXCEPT !.concatenated_alice_sifted_bits = ca,
                      !.concatenated_bob_sifted_bits = cb]
  IN  /\ Scheduled(r)
      /\ f.pc = "verify"
      /\ IF not_enough_to_sample(ca, f.sample_size)
         THEN Step(r, Raise(g, "NotEnoughSifted"), stream, picked, chan)
         ELSE \E si \in choice(f.rng, Len(ca), f.sample_size) :
                LET v  == sample_and_verify(ca, cb, f.sample_size, si, f.qber_threshold)
                    h  == [g EXCEPT !.draws = @ + 1,
                                    !.sample_indices = si,
                                    !.mismatched_bits_count = v.mismatched_bits_count,
                                    !.qber_value = v.qber_value,
                                    !.bob_final_bits = v.kept_bob_bits,
                                    !.kept_indices = v.kept_indices]
                    pk == IF f.rng.seeded
                            THEN <<[by |-> r, pos |-> f.rng.pos, n |-> Len(ca),
                                    size |-> f.sample_size, out |-> si]>>
                            ELSE picked
                IN  Step(r, IF v.raised = "" THEN [h EXCEPT !.pc = "assemble"]
                                             ELSE Raise(h, v.raised),
                         stream, pk, chan)

\* the kept bits returned whole
final_key_untruncated(f) == f.bob_final_bits

\* the key and the kept indices of the Result
final_key_of(f) == Slice(f.bob_final_bits, 0, f.final_key_size)

\* the last final_key_size kept indices, not the first
kept_indices_last(f) ==
  Slice(f.kept_indices, Max(Len(f.kept_indices) - f.final_key_size, 0), Len(f.kept_indices))

kept_indices_of(f) == Slice(f.kept_indices, 0, f.final_key_size)

BB84Result(f) ==
  [final_key |-> final_key_of(f),
   qber_sample |-> f.qber_value,
   total_transmissions |-> f.total_transmissions,
   sifted_size_before_sample |-> Len(f.concatenated_alice_sifted_bits),
   sample_indices |-> f.sample_indices,
   kept_indices |-> kept_indices_of(f)]

\* the last check and the Result
Assemble(r) ==
  LET f == bb84[r]
  IN  /\ Scheduled(r)
      /\ f.pc = "assemble"
      /\ Step(r, IF Len(f.bob_final_bits) < f.final_key_size
                   THEN Raise(f, "NotEnoughKept")
                   ELSE [f EXCEPT !.pc = "done", !.result = <<BB84Result(f)>>],
              stream, picked, chan)

\* ------------------------------------------------------------ specifications
NoArgs == [alice_raw_bits |-> <<>>, alice_bases |-> <<>>, bob_bases |-> <<>>,
           bob_measured_bits |-> <<>>]

NoVerifyArgs == [alice_bits |-> <<>>, bob_bits |-> <<>>, sample_size |-> 0,
                 qber_threshold |-> 0]

NoBackendArgs == [backend_name |-> "", sims |-> <<>>, qpus |-> <<>>]

\* no direct call of sample_and_verify or of pick_ibm_backend
NoOtherCall ==
  /\ verify_args = NoVerifyArgs
  /\ verify_ret = <<>>
  /\ backend_args = NoBackendArgs
  /\ backend_ret = <<>>

Quiet ==
  /\ stream = [base |-> 0, bits |-> <<>>]
  /\ picked = <<>>
  /\ chan = <<>>

\* one call, with any arguments
Init ==
  /\ \E n \in 0..MaxN, s \in (-1)..MaxS, seed \in Seeds, batch \in (-1)..MaxBatch,
        executor \in Executors, th \in 0..ThDen :
       bb84 = [r \in Runs |-> IF r = 1 THEN Frame(n, s, seed, batch, executor, th, "start")
                              ELSE Off]
  /\ Quiet
  /\ det = "none"
  /\ counted = TRUE
  /\ sift_args = NoArgs
  /\ sift_ret = <<>>
  /\ NoOtherCall

Next == \E r \in Runs : Validate(r) \/ Round(r) \/ Verify(r) \/ Assemble(r)

Spec == Init /\ [][Next]_vars

\* One call with valid arguments (threshold 1 / ThDen) and no bound on its rounds: the counters are
\* not kept, so a round that sifts nothing new leaves the state as it was, and
\* the steps that change the state are the rounds that sift bits, an executor
\* that raises, and the steps past the loop.  Fairness: such steps keep
\* occurring while one is possible.
InitLive ==
  /\ \E n \in 1..MaxN, s \in 0..MaxS, batch \in 1..MaxLiveBatch,
        executor \in {"aer", "runtime"} :
       bb84 = [r \in Runs |-> IF r = 1 THEN Frame(n, s, "None", batch, executor, 1, "start")
                              ELSE Off]
  /\ Quiet
  /\ det = "none"
  /\ counted = FALSE
  /\ sift_args = NoArgs
  /\ sift_ret = <<>>
  /\ NoOtherCall

SpecLive == InitLive /\ [][Next]_vars /\ WF_vars(Next)

\* Two calls with the same seed, sample size, executor and threshold (1 / ThDen):
\* the same call twice, or one that differs in its batch size or in its key size.
PairArgs ==
  {a \in [n1 : 1..MaxN, n2 : 1..MaxN, b1 : 1..MaxBatch, b2 : 1..MaxBatch] :
     \/ a.n1 = a.n2 /\ a.b1 <= a.b2
     \/ a.n1 < a.n2 /\ a.b1 = a.b2}

Executions ==
  {<<"aer", "matched">>, <<"runtime", "matched">>, <<"runtime", "full">>}

InitPair ==
  /\ \E a \in PairArgs, s \in 0..MaxS, e \in Executions :
       /\ bb84 = [r \in Runs |-> IF r = 1 THEN Frame(a.n1, s, "42", a.b1, e[1], 1, "start")
                                 ELSE Frame(a.n2, s, "42", a.b2, e[1], 1, "start")]
       /\ det = e[2]
  /\ Quiet
  /\ counted = TRUE
  /\ sift_args = NoArgs
  /\ sift_ret = <<>>
  /\ NoOtherCall

SpecPair == InitPair /\ [][Next]_vars

\* sift called on any four arrays of one length
InitSift ==
  /\ bb84 = [r \in Runs |-> Off]
  /\ Quiet
  /\ det = "none"
  /\ counted = TRUE
  /\ NoOtherCall
  /\ \E len \in 0..MaxLen :
       sift_args \in [alice_raw_bits : [1..len -> Bit], alice_bases : [1..len -> Bit],
                      bob_bases : [1..len -> Bit], bob_measured_bits : [1..len -> Bit]]
  /\ sift_ret = <<>>

SiftCall ==
  /\ sift_ret = <<>>
  /\ sift_ret' = <<sift(sift_args.alice_raw_bits, sift_args.alice_bases,
                        sift_args.bob_bases, sift_args.bob_measured_bits)>>
  /\ UNCHANGED <<bb84, stream, picked, chan, det, counted, sift_args,
                 verify_args, verify_ret, backend_args, backend_ret>>

NextSift == SiftCall

SpecSift == InitSift /\ [][NextSift]_vars

\* sample_and_verify called on any two arrays, of one length or not
BitArrays == UNION {[1..len -> Bit] : len \in 0..MaxLen}

InitVerify ==
  /\ bb84 = [r \in Runs |-> Off]
  /\ Quiet
  /\ det = "none"
  /\ counted = TRUE
  /\ sift_args = NoArgs
  /\ sift_ret = <<>>
  /\ verify_args \in [alice_bits : BitArrays, bob_bits : BitArrays,
                      sample_size : 0..MaxLen, qber_threshold : 0..ThDen]
  /\ verify_ret = <<>>
  /\ backend_args = NoBackendArgs
  /\ backend_ret = <<>>

\* the call: the test of line 95, then the draw of the sample and the rest
VerifyCall ==
  LET a == verify_args
  IN  /\ verify_ret = <<>>
      /\ IF not_enough_to_sample(a.alice_bits, a.sample_size)
         THEN verify_ret' = <<[raised |-> "NotEnoughSifted", sample_indices |-> <<>>,
                               qber_value |-> NoQber, kept_bob_bits |-> <<>>,
                               kept_indices |-> <<>>]>>
         ELSE \E si \in Permutations(Len(a.alice_bits), a.sample_size) :
                LET v == sample_and_verify(a.alice_bits, a.bob_bits, a.sample_size, si,
                                           a.qber_threshold)
                IN  verify_ret' = <<[raised |-> v.raised, sample_indices |-> si,
                                     qber_value |-> v.qber_value,
                                     kept_bob_bits |-> v.kept_bob_bits,
                                     kept_indices |-> v.kept_indices]>>
      /\ UNCHANGED <<bb84, stream, picked, chan, det, counted, sift_args, sift_ret,
                     verify_args, backend_args, backend_ret>>

NextVerify == VerifyCall

SpecVerify == InitVerify /\ [][NextVerify]_vars

\* pick_ibm_backend called with or without a name, on any two lists of backends
InitBackend ==
  /\ bb84 = [r \in Runs |-> Off]
  /\ Quiet
  /\ det = "none"
  /\ counted = TRUE
  /\ sift_args = NoArgs
  /\ sift_ret = <<>>
  /\ verify_args = NoVerifyArgs
  /\ verify_ret = <<>>
  /\ backend_args \in [backend_name : {"", "ibm_named"}, sims : Backends, qpus : Backends]
  /\ backend_ret = <<>>

BackendCall ==
  /\ backend_ret = <<>>
  /\ backend_ret' = <<pick_ibm_backend(backend_args.backend_name, backend_args.sims,
                                       backend_args.qpus)>>
  /\ UNCHANGED <<bb84, stream, picked, chan, det, counted, sift_args, sift_ret,
                 verify_args, verify_ret, backend_args>>

NextBackend == BackendCall

SpecBackend == InitBackend /\ [][NextBackend]_vars

\* ------------------------------------------------------------------ claims
Range(q) == {q[k] : k \in 1..Len(q)}

Returned(f) == f.result # <<>>

\* the accumulated sifted bits, flattened in round order
AliceSifted(f) == np_concatenate(f.all_alice_sifted_bits)

BobSifted(f) == np_concatenate(f.all_bob_sifted_bits)

\* the sampled positions (1 .. sample_size) where Alice's and Bob's sifted bits differ
SampleMismatches(f) ==
  {k \in 1..Len(f.sample_indices) :
     f.concatenated_alice_sifted_bits[f.sample_indices[k] + 1]
       # f.concatenated_bob_sifted_bits[f.sample_indices[k] + 1]}

\* sample_and_verify drew its sample and computed the rate
Sampled(f) ==
  \/ f.pc \in {"assemble", "done"}
  \/ f.pc = "error" /\ f.err \in {"QberTooHigh", "NotEnoughKept"}

\* C1: a run that returns a Result returns a key of exactly final_key_size bits
\* and exactly final_key_size kept indices; a Result exists only in "done".
C1_KeyLength ==
  \A r \in Runs :
    /\ Returned(bb84[r]) <=> bb84[r].pc = "done"
    /\ Returned(bb84[r]) =>
         /\ bb84[r].final_key_size > 0
         /\ bb84[r].sample_size >= 0
         /\ Len(bb84[r].result[1].final_key) = bb84[r].final_key_size
         /\ Len(bb84[r].result[1].kept_indices) = bb84[r].final_key_size

\* a Result whose key was cut from more kept bits than final_key_size
C1_Witness ==
  \E r \in Runs :
    /\ Returned(bb84[r])
    /\ Len(bb84[r].bob_final_bits) > bb84[r].final_key_size
    /\ bb84[r].final_key_size = MaxN

\* C2 as stated: in every Result sample_indices and kept_indices are disjoint and
\* their union is the whole range 0 .. sifted_size_before_sample - 1.
C2_Original ==
  \A r \in Runs :
    Returned(bb84[r]) =>
      LET res == bb84[r].result[1]
      IN  /\ Range(res.sample_indices) \cap Range(res.kept_indices) = {}
          /\ Range(res.sample_indices) \cup Range(res.kept_indices)
               = 0..(res.sifted_size_before_sample - 1)

\* C2 amended: in every Result sample_indices and kept_indices are disjoint sets
\* of indices of the sifted sequence, with sample_size and final_key_size
\* distinct entries; their union is the whole range exactly when
\* sifted_size_before_sample = final_key_size + sample_size.
C2_Partition ==
  \A r \in Runs :
    Returned(bb84[r]) =>
      LET res   == bb84[r].result[1]
          whole == 0..(res.sifted_size_before_sample - 1)
          both  == Range(res.sample_indices) \cup Range(res.kept_indices)
      IN  /\ Range(res.sample_indices) \cap Range(res.kept_indices) = {}
          /\ both \subseteq whole
          /\ Cardinality(Range(res.sample_indices)) = bb84[r].sample_size
          /\ Cardinality(Range(res.kept_indices)) = bb84[r].final_key_size
          /\ both = whole <=>
               res.sifted_size_before_sample = bb84[r].final_key_size + bb84[r].sample_size

\* a Result of a run that sifted more bits than final_key_size + sample_size
C2_Witness ==
  \E r \in Runs :
    /\ Returned(bb84[r])
    /\ bb84[r].result[1].sifted_size_before_sample
         > bb84[r].final_key_size + bb84[r].sample_size
    /\ bb84[r].sample_size = MaxS

\* C3: a call with final_key_size <= 0, sample_size < 0 or batch_size <= 0 ends
\* with the invalid-parameters error before the loop: no iteration, no draw, no
\* executor call, no transmission counted.
C3_InvalidRejected ==
  \A r \in Runs :
    (/\ bb84[r].pc \notin {"off", "start"}
     /\ \/ bb84[r].final_key_size <= 0
        \/ bb84[r].sample_size < 0
        \/ bb84[r].batch_size <= 0)
    => /\ bb84[r].pc = "error"
       /\ bb84[r].err = "InvalidParameters"
       /\ bb84[r].rounds = 0
       /\ bb84[r].draws = 0
       /\ bb84[r].calls = 0
       /\ bb84[r].total_transmissions = 0

\* C4: with sample_size = 0, final_key_size > 0 and the noiseless simulator the
\* run raises nothing, and past the verifier qber is 0, the sample is empty and
\* the key is the first final_key_size sifted bits.
C4_ZeroSample ==
  \A r \in Runs :
    (/\ bb84[r].sample_size = 0
     /\ bb84[r].final_key_size > 0
     /\ bb84[r].batch_size > 0
     /\ bb84[r].executor = "aer")
    => /\ bb84[r].pc # "error"
       /\ Returned(bb84[r]) =>
            /\ bb84[r].result[1].qber_sample.num = 0
            /\ bb84[r].result[1].sample_indices = <<>>
            /\ bb84[r].result[1].final_key
                 = Slice(BobSifted(bb84[r]), 0, bb84[r].final_key_size)

\* C5: once the sample is drawn (sample_size > 0), the run has raised the
\* error-rate error, with no Result, exactly when mismatches / sample_size is
\* strictly above the threshold; no Result carries a rate above the threshold.
C5_Threshold ==
  \A r \in Runs :
    (Sampled(bb84[r]) /\ bb84[r].sample_size > 0) =>
      LET above == Cardinality(SampleMismatches(bb84[r])) * ThDen
                     > bb84[r].qber_threshold * bb84[r].sample_size
      IN  /\ above <=> (bb84[r].pc = "error" /\ bb84[r].err = "QberTooHigh")
          /\ above => ~Returned(bb84[r])
          /\ Returned(bb84[r]) =>
               bb84[r].result[1].qber_sample.num * ThDen
                 <= bb84[r].qber_threshold * bb84[r].result[1].qber_sample.den

\* a Result whose rate equals a positive threshold, and a run refused for its rate
C5_Witness ==
  \E r \in Runs :
    /\ Returned(bb84[r])
    /\ bb84[r].qber_threshold > 0
    /\ bb84[r].result[1].qber_sample.num * ThDen
         = bb84[r].qber_threshold * bb84[r].result[1].qber_sample.den

\* the 0-based positions of one round where Alice's and Bob's bases agree
Matching(args) ==
  {i \in 0..(Len(args.alice_bases) - 1) : args.alice_bases[i + 1] = args.bob_bases[i + 1]}

\* C7: sift returns two arrays as long as there are positions with equal bases;
\* matching_indices lists exactly those positions in ascending order, and the
\* k-th sifted bits are Alice's and Bob's bits at the k-th matching position.
C7_Sift ==
  sift_ret # <<>> =>
    LET ret == sift_ret[1]
        idx == ret.matching_indices
    IN  /\ Len(ret.alice_sifted_bits) = Cardinality(Matching(sift_args))
        /\ Len(ret.bob_sifted_bits) = Cardinality(Matching(sift_args))
        /\ Len(idx) = Cardinality(Matching(sift_args))
        /\ Range(idx) = Matching(sift_args)
        /\ \A j, k \in 1..Len(idx) : j < k => idx[j] < idx[k]
        /\ \A k \in 1..Len(idx) :
             /\ ret.alice_sifted_bits[k] = sift_args.alice_raw_bits[idx[k] + 1]
             /\ ret.bob_sifted_bits[k] = sift_args.bob_measured_bits[idx[k] + 1]

\* sift has returned for a round where some bases agree, some do not, and Bob's
\* bit differs from Alice's at a matching position
C7_Witness ==
  /\ sift_ret # <<>>
  /\ Len(sift_args.alice_bases) = MaxLen
  /\ Matching(sift_args) \notin {{}, 0..(MaxLen - 1)}
  /\ \E k \in 1..Len(sift_ret[1].matching_indices) :
       sift_ret[1].alice_sifted_bits[k] # sift_ret[1].bob_sifted_bits[k]

\* C8: for sample_size > 0, once sample_and_verify has computed the rate, it is
\* (the number of sampled indices where the sifted bits differ) / sample_size,
\* between 0 and 1, and the Result's qber_sample is that value.
C8_Qber ==
  \A r \in Runs :
    (Sampled(bb84[r]) /\ bb84[r].sample_size > 0) =>
      /\ bb84[r].qber_value.num = Cardinality(SampleMismatches(bb84[r]))
      /\ bb84[r].qber_value.den = bb84[r].sample_size
      /\ 0 <= bb84[r].qber_value.num
      /\ bb84[r].qber_value.num <= bb84[r].qber_value.den
      /\ bb84[r].mismatched_bits_count = bb84[r].qber_value.num
      /\ Returned(bb84[r]) => bb84[r].result[1].qber_sample = bb84[r].qber_value

\* a Result whose rate is strictly between 0 and 1 although the sifted bits
\* hold more mismatches than the sample
C8_Witness ==
  \E r \in Runs :
    /\ Returned(bb84[r])
    /\ bb84[r].result[1].qber_sample.num > 0
    /\ bb84[r].result[1].qber_sample.num < bb84[r].result[1].qber_sample.den
    /\ \E i \in 1..Len(bb84[r].concatenated_alice_sifted_bits) :
         /\ (i - 1) \notin Range(bb84[r].sample_indices)
         /\ bb84[r].concatenated_alice_sifted_bits[i] # bb84[r].concatenated_bob_sifted_bits[i]

\* Bob's bit equals Alice's at every position of every round where the bases match
Noiseless(f) == AliceSifted(f) = BobSifted(f)

\* the run has left the accumulation loop
LeftLoop(f) ==
  \/ f.pc \in {"verify", "assemble", "done"}
  \/ f.pc = "error" /\ f.err \in {"NotEnoughSifted", "ZeroDivisionError", "QberTooHigh", "NotEnoughKept"}

\* C9: the ideal simulator is noiseless; and with a noiseless executor,
\* final_key_size > 0, sample_size > 0, batch_size > 0 and a threshold in [0, 1],
\* a run that has left the loop raises nothing, reports a rate of 0 and returns
\* a key of final_key_size bits equal to Alice's sifted bits at the kept indices.
C9_Noiseless ==
  \A r \in Runs :
    /\ (bb84[r].executor = "aer" /\ bb84[r].pc # "off") => Noiseless(bb84[r])
    /\ (/\ Noiseless(bb84[r])
        /\ LeftLoop(bb84[r])
        /\ bb84[r].final_key_size > 0
        /\ bb84[r].sample_size > 0
        /\ bb84[r].batch_size > 0
        /\ bb84[r].qber_threshold \in 0..ThDen)
       => /\ bb84[r].pc # "error"
          /\ bb84[r].pc \in {"assemble", "done"} => bb84[r].qber_value.num = 0
          /\ Returned(bb84[r]) =>
               /\ bb84[r].result[1].qber_sample = [num |-> 0, den |-> bb84[r].sample_size]
               /\ Len(bb84[r].result[1].final_key) = bb84[r].final_key_size
               /\ bb84[r].result[1].final_key
                    = take(AliceSifted(bb84[r]), bb84[r].result[1].kept_indices)

\* a Result of the simulator under the threshold 0 whose key bits are all 1
C9_Witness ==
  \E r \in Runs :
    /\ Returned(bb84[r])
    /\ bb84[r].executor = "aer"
    /\ bb84[r].qber_threshold = 0
    /\ bb84[r].sample_size = MaxS
    /\ bb84[r].final_key_size = MaxN
    /\ \A k \in 1..MaxN : bb84[r].result[1].final_key[k] = 1

\* the two calls have the same arguments
SameCall ==
  /\ bb84[1].final_key_size = bb84[2].final_key_size
  /\ bb84[1].sample_size = bb84[2].sample_size
  /\ bb84[1].batch_size = bb84[2].batch_size
  /\ bb84[1].qber_threshold = bb84[2].qber_threshold
  /\ bb84[1].executor = bb84[2].executor
  /\ bb84[1].seed = bb84[2].seed

Ended(f) == f.pc \in {"done", "error"}

\* C6: two calls with the same seed and arguments and a reproducible executor
\* that have both ended ended the same way: the same error, or Results equal
\* field by field.
C6_Determinism ==
  (/\ SameCall
   /\ bb84[1].seed # "None"
   /\ det = "full"
   /\ Ended(bb84[1])
   /\ Ended(bb84[2]))
  => /\ bb84[1].pc = bb84[2].pc
     /\ bb84[1].err = bb84[2].err
     /\ bb84[1].result = bb84[2].result
     /\ Returned(bb84[1]) =>
          /\ bb84[1].result[1].final_key = bb84[2].result[1].final_key
          /\ bb84[1].result[1].qber_sample = bb84[2].result[1].qber_sample
          /\ bb84[1].result[1].total_transmissions = bb84[2].result[1].total_transmissions
          /\ bb84[1].result[1].sifted_size_before_sample
               = bb84[2].result[1].sifted_size_before_sample
          /\ bb84[1].result[1].sample_indices = bb84[2].result[1].sample_indices
          /\ bb84[1].result[1].kept_indices = bb84[2].result[1].kept_indices

\* two calls with the same arguments over a noisy reproducible executor have both
\* returned a Result, after more than one round and with a mismatch in the sample
C6_Witness ==
  /\ SameCall
  /\ det = "full"
  /\ bb84[1].executor = "runtime"
  /\ Returned(bb84[1])
  /\ Returned(bb84[2])
  /\ bb84[1].rounds > 1
  /\ bb84[1].result[1].qber_sample.num > 0

IsPrefix(a, b) == Len(a) <= Len(b) /\ \A k \in 1..Len(a) : a[k] = b[k]

PrefixRelated(a, b) == IsPrefix(a, b) \/ IsPrefix(b, a)

\* C10 as stated: with the same seed, the sifted sequences accumulated by a call
\* with batch_size 1 and by a call with any batch size are the same, one a
\* prefix of the other where they stop at different lengths.
C10_Original ==
  (bb84[1].seed # "None" /\ bb84[1].seed = bb84[2].seed /\ bb84[1].batch_size = 1)
  => /\ PrefixRelated(AliceSifted(bb84[1]), AliceSifted(bb84[2]))
     /\ PrefixRelated(BobSifted(bb84[1]), BobSifted(bb84[2]))

\* C10 amended: with the same seed, executor (reproducible at least where the
\* bases match) and the same batch_size, the sifted sequences two calls
\* accumulate are the same, one a prefix of the other where they stop at
\* different lengths.
C10_SameBatch ==
  (/\ bb84[1].seed # "None"
   /\ bb84[1].seed = bb84[2].seed
   /\ bb84[1].executor = bb84[2].executor
   /\ det \in {"matched", "full"}
   /\ bb84[1].batch_size = bb84[2].batch_size)
  => /\ PrefixRelated(AliceSifted(bb84[1]), AliceSifted(bb84[2]))
     /\ PrefixRelated(BobSifted(bb84[1]), BobSifted(bb84[2]))

\* two calls with batches of MaxBatch and different key sizes have left the loop,
\* the second after a round more and with more sifted bits, noise included
C10_Witness ==
  /\ bb84[1].batch_size = MaxBatch
  /\ bb84[2].batch_size = MaxBatch
  /\ LeftLoop(bb84[1])
  /\ LeftLoop(bb84[2])
  /\ bb84[1].rounds < bb84[2].rounds
  /\ Len(AliceSifted(bb84[1])) > 0
  /\ Len(AliceSifted(bb84[1])) < Len(AliceSifted(bb84[2]))
  /\ AliceSifted(bb84[2]) # BobSifted(bb84[2])

\* C11: a call of sample_and_verify whose arrays differ in length, or are shorter
\* than sample_size, raises the insufficient-material error ("Not enough sifted
\* bits to sample") and returns nothing.
C11_PreconditionEnforced ==
  verify_ret # <<>> =>
    LET a == verify_args
    IN  (Len(a.alice_bits) # Len(a.bob_bits) \/ Len(a.alice_bits) < a.sample_size) =>
          /\ verify_ret[1].raised = "NotEnoughSifted"
          /\ verify_ret[1].kept_bob_bits = <<>>
          /\ verify_ret[1].kept_indices = <<>>

\* the part the code does enforce: fewer bits than sample_size
C11_TooFew ==
  verify_ret # <<>> =>
    (Len(verify_args.alice_bits) < verify_args.sample_size
       <=> verify_ret[1].raised = "NotEnoughSifted")

\* arrays of different lengths, enough to sample: an index error, not the
\* insufficient-material error
C11_Unequal ==
  /\ verify_ret # <<>>
  /\ Len(verify_args.alice_bits) > Len(verify_args.bob_bits)
  /\ Len(verify_args.alice_bits) >= verify_args.sample_size
  /\ verify_ret[1].raised = "IndexError"

\* C12: a call of the executor that raises ends the run with that error: the
\* failed call is the last one and the only one of its round, nothing is
\* concatenated or sampled afterwards, and there is no Result.
\* (calls * batch_size > total_transmissions: some call did not return.)
C12_ExecutorFailure ==
  \A r \in Runs :
    LET f == bb84[r]
    IN  /\ (f.batch_size > 0 /\ f.calls * f.batch_size > f.total_transmissions) =>
             f.pc = "error" /\ f.err = "ExecutorFailure"
        /\ f.err = "ExecutorFailure" =>
             /\ f.pc = "error"
             /\ f.calls = f.rounds
             /\ f.calls * f.batch_size = f.total_transmissions + f.batch_size
             /\ f.draws = 3 * f.rounds
             /\ f.concatenated_alice_sifted_bits = <<>>
             /\ f.concatenated_bob_sifted_bits = <<>>
             /\ f.sample_indices = <<>>
             /\ f.qber_value = NoQber
             /\ f.bob_final_bits = <<>>
             /\ ~Returned(f)

\* the executor fails in the second round, bits of the first already sifted
C12_Witness ==
  \E r \in Runs :
    /\ bb84[r].err = "ExecutorFailure"
    /\ bb84[r].rounds = 2
    /\ bb84[r].total_transmissions = bb84[r].batch_size
    /\ bb84[r].all_alice_sifted_bits # <<>>

\* C13: when sample_and_verify returns (0 < sample_size <= L, the rate within the
\* threshold), sample_indices holds sample_size pairwise distinct indices of
\* 0 .. L-1, kept_indices is the complement in ascending order (L - sample_size
\* entries), and the kept bits are the receiver's bits at kept_indices, in order.
C13_SampleAndKept ==
  (verify_ret # <<>> /\ verify_ret[1].raised = "") =>
    LET a  == verify_args
        L  == Len(a.alice_bits)
        si == verify_ret[1].sample_indices
        ki == verify_ret[1].kept_indices
        kb == verify_ret[1].kept_bob_bits
    IN  /\ 0 < a.sample_size /\ a.sample_size <= L /\ Len(a.bob_bits) = L
        /\ ~TooHigh(verify_ret[1].qber_value, a.qber_threshold)
        /\ Len(si) = a.sample_size
        /\ Range(si) \subseteq 0..(L - 1)
        /\ \A i, j \in 1..Len(si) : i # j => si[i] # si[j]
        /\ Range(ki) = (0..(L - 1)) \ Range(si)
        /\ Len(ki) = L - a.sample_size
        /\ \A i, j \in 1..Len(ki) : i < j => ki[i] < ki[j]
        /\ Len(kb) = Len(ki)
        /\ \A j \in 1..Len(ki) : kb[j] = a.bob_bits[ki[j] + 1]

\* a sample drawn out of order from the middle of three bits
C13_Witness ==
  /\ verify_ret # <<>>
  /\ verify_ret[1].raised = ""
  /\ Len(verify_args.alice_bits) = 3
  /\ verify_ret[1].sample_indices = <<1>>
  /\ verify_ret[1].kept_indices = <<0, 2>>
  /\ verify_args.bob_bits = <<1, 0, 0>>
  /\ verify_ret[1].kept_bob_bits = <<1, 0>>

\* a step of run r that is a round of the loop whose executor call returned
RoundDone(f, g) ==
  f.pc = "loop" /\ g.pc \in {"loop", "verify"} /\ g.rounds = f.rounds + 1

\* C14: every round leaves the accumulated sender and receiver bits of equal
\* length and equal to what they were followed by the round's sift outputs; a
\* round that sifts nothing leaves the lists as they were; no step shortens them,
\* and no step but a round changes them.
C14_Accumulation ==
  [][\A r \in Runs :
       LET f == bb84[r]
           g == bb84'[r]
       IN  /\ Len(AliceSifted(g)) = Len(BobSifted(g))
           /\ Len(AliceSifted(g)) >= Len(AliceSifted(f))
           /\ RoundDone(f, g) =>
                /\ Len(g.alice_sifted_bits) = Len(g.bob_sifted_bits)
                /\ Len(g.alice_sifted_bits) <= f.batch_size
                /\ AliceSifted(g) = AliceSifted(f) \o g.alice_sifted_bits
                /\ BobSifted(g) = BobSifted(f) \o g.bob_sifted_bits
                /\ g.alice_sifted_bits = <<>> =>
                     /\ g.all_alice_sifted_bits = f.all_alice_sifted_bits
                     /\ g.all_bob_sifted_bits = f.all_bob_sifted_bits
           /\ ~RoundDone(f, g) =>
                /\ g.all_alice_sifted_bits = f.all_alice_sifted_bits
                /\ g.all_bob_sifted_bits = f.all_bob_sifted_bits
    ]_vars

\* two rounds sifted bits, those of the second after those of the first
C14_Witness ==
  \E r \in Runs :
    /\ bb84[r].rounds = 2
    /\ bb84[r].all_alice_sifted_bits = <<<<0, 1>>, <<1>>>>
    /\ bb84[r].all_bob_sifted_bits = <<<<1, 1>>, <<0>>>>
    /\ bb84[r].alice_sifted_bits = <<1>>
    /\ AliceSifted(bb84[r]) = <<0, 1, 1>>
    /\ BobSifted(bb84[r]) = <<1, 1, 0>>

\* C15: the loop is left at the end of the first round after which the sifted
\* bits number final_key_size + sample_size or more, not before and not later:
\* a run still in the loop has fewer, a run past it has that many and had fewer
\* before its last round, which sifted at most batch_size bits; the sample is
\* drawn only past the loop; at least one round is run; and every Result has
\* n + s <= sifted_size_before_sample < n + s + batch_size.
C15_LoopExit ==
  \A r \in Runs :
    LET f    == bb84[r]
        need == f.final_key_size + f.sample_size
        L    == Len(AliceSifted(f))
    IN  /\ (f.pc = "loop" /\ f.rounds > 0) => L < need
        /\ (f.pc = "error" /\ f.err \in {"ExecutorFailure", "BadExecutor", "NegativeDimensions"}) =>
             L < need /\ f.sample_indices = <<>> /\ f.draws <= 3 * f.rounds
        /\ LeftLoop(f) =>
             /\ f.rounds >= 1
             /\ L >= need
             /\ L - Len(f.alice_sifted_bits) < need
             /\ Len(f.alice_sifted_bits) <= f.batch_size
             /\ L < need + f.batch_size
             /\ f.calls = f.rounds
             /\ f.total_transmissions = f.rounds * f.batch_size
        /\ (f.sample_indices # <<>> \/ f.draws > 3 * f.rounds) => LeftLoop(f)
        /\ Returned(f) =>
             /\ f.result[1].sifted_size_before_sample = L
             /\ need <= f.result[1].sifted_size_before_sample
             /\ f.result[1].sifted_size_before_sample < need + f.batch_size
             /\ f.result[1].total_transmissions >= f.batch_size

\* a Result after two rounds, the second of which sifted one bit more than needed
C15_Witness ==
  \E r \in Runs :
    /\ Returned(bb84[r])
    /\ bb84[r].rounds = 2
    /\ bb84[r].batch_size = 2
    /\ Len(bb84[r].all_alice_sifted_bits) = 2
    /\ bb84[r].result[1].sifted_size_before_sample
         = bb84[r].final_key_size + bb84[r].sample_size + 1

\* C16: in every Result kept_indices is strictly ascending and holds the
\* final_key_size smallest indices of 0 .. sifted_size_before_sample - 1 that are
\* not sampled; final_key[j] is the receiver's accumulated sifted bit at
\* kept_indices[j]; so no bit of the key comes from a sampled position.
C16_KeyFromKept ==
  \A r \in Runs :
    Returned(bb84[r]) =>
      LET f    == bb84[r]
          res  == f.result[1]
          ki   == res.kept_indices
          rest == (0..(res.sifted_size_before_sample - 1)) \ Range(res.sample_indices)
      IN  /\ res.sifted_size_before_sample = Len(BobSifted(f))
          /\ Len(ki) = f.final_key_size
          /\ \A i, j \in 1..Len(ki) : i < j => ki[i] < ki[j]
          /\ Range(ki) \subseteq rest
          /\ \A x \in rest \ Range(ki) : \A y \in Range(ki) : y < x
          /\ Range(ki) \cap Range(res.sample_indices) = {}
          /\ Len(res.final_key) = Len(ki)
          /\ \A j \in 1..Len(ki) : res.final_key[j] = BobSifted(f)[ki[j] + 1]

\* a key of one bit taken past the sampled first position, with a kept position
\* left over
C16_Witness ==
  \E r \in Runs :
    /\ Returned(bb84[r])
    /\ bb84[r].result[1].sifted_size_before_sample = 3
    /\ bb84[r].result[1].sample_indices = <<0>>
    /\ bb84[r].result[1].kept_indices = <<1>>
    /\ BobSifted(bb84[r]) = <<0, 1, 0>>
    /\ bb84[r].result[1].final_key = <<1>>

\* C17: inside BB84 neither defensive check fires: sample_and_verify is entered
\* with at least sample_size sifted bits, so the insufficient-material error is
\* never raised, and once the verification has passed the kept bits number
\* sifted - sample_size >= final_key_size, so the insufficient-final-key error
\* is never raised either.
C17_DefensiveChecks ==
  \A r \in Runs :
    LET f == bb84[r]
        L == Len(AliceSifted(f))
    IN  /\ f.err \notin {"NotEnoughSifted", "NotEnoughKept"}
        /\ f.pc = "verify" =>
             /\ f.final_key_size > 0 /\ f.sample_size >= 0
             /\ ~not_enough_to_sample(AliceSifted(f), f.sample_size)
        /\ f.pc \in {"assemble", "done"} =>
             /\ Len(f.bob_final_bits) = L - f.sample_size
             /\ Len(f.bob_final_bits) >= f.final_key_size

\* the verification passed with exactly final_key_size bits kept
C17_Witness ==
  \E r \in Runs :
    /\ bb84[r].pc = "assemble"
    /\ bb84[r].sample_size = 2
    /\ bb84[r].final_key_size = 2
    /\ Len(bb84[r].concatenated_alice_sifted_bits) = 4
    /\ Len(bb84[r].bob_final_bits) = 2

\* what of a frame the program computes (differed only records the executor)
Computed(f) == [f EXCEPT !.differed = FALSE]

\* C20: two calls with the same seed and arguments whose executors answer alike
\* where the bases match, and anyhow elsewhere, and that have both ended, ended
\* the same way after the same number of rounds, with the same sifted bits,
\* sample, rate, error or Result.
C20_NonInterference ==
  (/\ SameCall
   /\ bb84[1].seed # "None"
   /\ det = "matched"
   /\ Ended(bb84[1])
   /\ Ended(bb84[2]))
  => /\ bb84[1].rounds = bb84[2].rounds
     /\ bb84[1].total_transmissions = bb84[2].total_transmissions
     /\ AliceSifted(bb84[1]) = AliceSifted(bb84[2])
     /\ BobSifted(bb84[1]) = BobSifted(bb84[2])
     /\ bb84[1].sample_indices = bb84[2].sample_indices
     /\ bb84[1].qber_value = bb84[2].qber_value
     /\ bb84[1].err = bb84[2].err
     /\ bb84[1].result = bb84[2].result
     /\ Computed(bb84[1]) = Computed(bb84[2])

\* both calls returned a Result after two rounds, and the executor of the second
\* call answered some round otherwise than that of the first
C20_Witness ==
  /\ SameCall
  /\ det = "matched"
  /\ Returned(bb84[1])
  /\ Returned(bb84[2])
  /\ bb84[1].rounds = 2
  /\ bb84[2].differed
  /\ bb84[1].result[1].qber_sample.num = 1
  /\ bb84[1].result = bb84[2].result

\* the list the call chose from, and the backend it returned
Chosen(args, ret) == IF ret.class = "sim" THEN args.sims ELSE args.qpus

LeastLoaded(bs, i) == \A j \in 1..Len(bs) : pending_key(bs[i]) <= pending_key(bs[j])

\* C19 as stated: with a name, the named backend; without one, a simulator if
\* there is one, else another backend, in either case one with the least
\* pending_jobs of its list; an error if both lists are empty.
C19_Original ==
  backend_ret # <<>> =>
    LET a   == backend_args
        ret == backend_ret[1]
    IN  /\ a.backend_name # "" => ret.raised = "" /\ ret.class = "named"
        /\ (a.backend_name = "" /\ a.sims # <<>>) => ret.raised = "" /\ ret.class = "sim"
        /\ (a.backend_name = "" /\ a.sims = <<>> /\ a.qpus # <<>>) =>
             ret.raised = "" /\ ret.class = "qpu"
        /\ (a.backend_name = "" /\ a.sims = <<>> /\ a.qpus = <<>>) =>
             ret.raised = "RuntimeError"
        /\ ret.class \in {"sim", "qpu"} =>
             /\ ret.at \in 1..Len(Chosen(a, ret))
             /\ LeastLoaded(Chosen(a, ret), ret.at)

\* C19: the same, the least pending_jobs (0 for a status without the attribute)
\* being returned when every status() of the list answers; when one raises, the
\* first backend of the list is returned.
C19_LeastLoadedIfStatus ==
  backend_ret # <<>> =>
    LET a   == backend_args
        ret == backend_ret[1]
        bs  == Chosen(a, ret)
    IN  /\ a.backend_name # "" => ret.raised = "" /\ ret.class = "named"
        /\ (a.backend_name = "" /\ a.sims # <<>>) => ret.raised = "" /\ ret.class = "sim"
        /\ (a.backend_name = "" /\ a.sims = <<>> /\ a.qpus # <<>>) =>
             ret.raised = "" /\ ret.class = "qpu"
        /\ (a.backend_name = "" /\ a.sims = <<>> /\ a.qpus = <<>>) =>
             ret.raised = "RuntimeError"
        /\ ret.class \in {"sim", "qpu"} =>
             /\ ret.at \in 1..Len(bs)
             /\ (\A i \in 1..Len(bs) : ~bs[i].raises) => LeastLoaded(bs, ret.at)
             /\ (\E i \in 1..Len(bs) : bs[i].raises) => ret.at = 1

\* the second of two simulators is returned, the first having more jobs pending
C19_Witness ==
  /\ backend_ret # <<>>
  /\ backend_args.backend_name = ""
  /\ backend_args.sims = <<[raises |-> FALSE, pending_jobs |-> <<1>>],
                           [raises |-> FALSE, pending_jobs |-> <<>>]>>
  /\ backend_args.qpus # <<>>
  /\ backend_ret[1] = [raised |-> "", class |-> "sim", at |-> 2]

\* a round of call r that sifts nothing and leaves the call in the loop
IdleRound(r) ==
  /\ Round(r)
  /\ bb84'[r].pc = "loop"
  /\ bb84'[r].err = ""
  /\ bb84'[r].alice_sifted_bits = <<>>
  /\ bb84'[r].all_alice_sifted_bits = bb84[r].all_alice_sifted_bits

\* C18: a call with valid arguments, whose executor calls return and whose
\* rounds keep sifting bits, leaves the loop and ends, with a Result or an
\* error; and at the head of the loop a round that sifts nothing and leaves the
\* call in the loop, no error raised, is always possible, whatever the number
\* of rounds already run.
C18_Termination ==
  /\ \A r \in Runs : (bb84[r].pc = "start") ~> Ended(bb84[r])
  /\ [](\A r \in Runs : bb84[r].pc = "loop" => ENABLED IdleRound(r))

\* a Result after more rounds than a counted call is allowed: MaxN + MaxS rounds
\* that sifted one bit each
C18_Witness ==
  \E r \in Runs :
    /\ ~counted
    /\ Returned(bb84[r])
    /\ Len(bb84[r].all_alice_sifted_bits) = MaxN + MaxS
    /\ bb84[r].batch_size = 1
    /\ bb84[r].rounds = 0

====
